---- MODULE Spec2Model ----
(***************************************************************************)
(* Capacity discovery of the Ollama context-length scripts:                *)
(*   scripts/context_length_test.py  (default limit, num_ctx limit, perf)  *)
(*   scripts/smart_context_test.py   (native limit, output limit)          *)
(*   scripts/batch_context_test.py   (largest num_ctx that succeeds)       *)
(* One run of a script's main() over a list of models.  Every probe of the *)
(* serving endpoint is one step; the endpoint's answer is the step's       *)
(* input.                                                                  *)
(***************************************************************************)
EXTENDS Integers, Sequences, FiniteSets, TLC

\* ------------------------------------------------------------------ bounds
\* number of models given on the command line
NumModels == 2

\* prompt_eval_count values the endpoint may report to context_length_test
InTokens == {0, 4093, 9000, 30000, 31000}
\* prompt_eval_count values the endpoint may report to smart_context_test
NativeTokens == {0, 4090, 8180, 9001, 30000, 31000}
\* prompt_eval_count values the endpoint may report to batch_context_test
BatchTokens == {0, 4090, 9001}
\* eval_count values the endpoint may report to an output-limit probe
OutTokens == {0, 1000, 1050, 2048}
\* elapsed seconds of a performance probe, after round(elapsed, 2)
Elapsed == {0, 2}
\* the ways a call to the endpoint fails
Failures == {"transport", "status", "timeout"}

\* ------------------------------------------------------- python's values
\* None, and the string "not reached", kept apart from every token count
None == -1
NotReached == -2

Truthy(x) == x # None /\ x # 0 /\ x # NotReached
PyOr(x, y) == IF Truthy(x) THEN x ELSE y
Min(a, b) == IF a <= b THEN a ELSE b
Max(a, b) == IF a >= b THEN a ELSE b
Last(s) == s[Len(s)]

\* int(n * 0.8), int(n * 0.9) for n >= 0
ScaleDown(n, tenths) == (n * tenths) \div 10

\* -------------------------------------------------- context_length_test.py
test_sizes == <<2000, 4000, 8000, 16000>>
num_ctx_values == <<8192, 16384, 32768, 65536, 131072>>

\* len(base): "The quick brown fox jumps over the lazy dog. "
BaseLen == 45
\* characters of the prompt template around the padding
TemplateLen == 65

\* len(generate_test_prompt(target_tokens))
generate_test_prompt(target_tokens) ==
    TemplateLen + BaseLen * Max(1, target_tokens \div 12)

count_tokens_approx(textLen) == textLen \div 4

\* a truncation test against half of the estimate
TruncatedCLHalf(prompt_eval, actual_tokens) == prompt_eval * 10 < actual_tokens * 5

\* prompt_eval < actual_tokens * 0.9
TruncatedCL(prompt_eval, actual_tokens) == prompt_eval * 10 < actual_tokens * 9

\* str(e) of the exception requests raises, as its first 50 characters and
\* the rest
ExceptionText(f) ==
    IF f = "timeout"
    THEN <<"HTTPConnectionPool(host='localhost', port=11434): ",
           "Read timed out. (read timeout=180)">>
    ELSE <<"HTTPConnectionPool(host='localhost', port=11434): ",
           "Max retries exceeded with url: /api/generate">>

\* the error text of a failed call, as a sequence of pieces of text
ErrorCL(f) ==
    CASE f = "status"  -> <<"HTTP 500: ">>
      [] f = "timeout" -> <<"Timeout after 180s">>
      [] OTHER         -> ExceptionText(f)

\* test_single_context: o is the endpoint's answer
test_single_context(target_tokens, num_ctx, o) ==
    LET actual_tokens == count_tokens_approx(generate_test_prompt(target_tokens))
    IN  IF o.ok
        THEN [success |-> TRUE,
              target_tokens |-> target_tokens,
              actual_tokens_approx |-> actual_tokens,
              num_ctx |-> num_ctx,
              prompt_eval_count |-> o.tokens,
              truncated |-> TruncatedCL(o.tokens, actual_tokens),
              error |-> <<>>]
        ELSE [success |-> FALSE,
              target_tokens |-> target_tokens,
              actual_tokens_approx |-> 0,
              num_ctx |-> num_ctx,
              prompt_eval_count |-> 0,
              truncated |-> FALSE,
              error |-> ErrorCL(o.cause)]

\* a phase 1 that goes on to the next size after a failed probe
DefaultStepRetry(dm, result) ==
    IF result.success
    THEN IF ~result.truncated
         THEN [default_max |-> result.prompt_eval_count, brk |-> FALSE]
         ELSE [default_max |-> dm, brk |-> TRUE]
    ELSE [default_max |-> dm, brk |-> FALSE]

\* a phase 1 that takes the count of a truncated probe as the default limit
DefaultStepTruncated(dm, result) ==
    IF result.success
    THEN [default_max |-> result.prompt_eval_count, brk |-> result.truncated]
    ELSE [default_max |-> dm, brk |-> TRUE]

\* phase 1, the body of the loop after the probe: the default limit so far
\* and whether the loop breaks
DefaultStep(dm, result) ==
    IF result.success
    THEN IF ~result.truncated
         THEN [default_max |-> result.prompt_eval_count, brk |-> FALSE]
         ELSE [default_max |-> dm, brk |-> TRUE]
    ELSE [default_max |-> dm, brk |-> TRUE]

\* a phase 2 that takes every successful probe's count as the best one
NumCtxStepOverwrite(mx, bn, num_ctx, result) ==
    IF result.success
    THEN [max_with_numctx |-> result.prompt_eval_count,
          best_numctx |-> num_ctx,
          brk |-> result.prompt_eval_count <= mx]
    ELSE [max_with_numctx |-> mx, best_numctx |-> bn, brk |-> TRUE]

\* a phase 2 that takes the num_ctx of every successful probe as the best one
NumCtxStepLastWindow(mx, bn, num_ctx, result) ==
    IF result.success
    THEN IF result.prompt_eval_count > mx
         THEN [max_with_numctx |-> result.prompt_eval_count,
               best_numctx |-> num_ctx,
               brk |-> FALSE]
         ELSE [max_with_numctx |-> mx,
               best_numctx |-> num_ctx,
               brk |-> result.prompt_eval_count * 10 <= mx * 11]
    ELSE [max_with_numctx |-> mx, best_numctx |-> bn, brk |-> TRUE]

\* a phase 2 that keeps the num_ctx of the first probe that improved
NumCtxStepFirstWindow(mx, bn, num_ctx, result) ==
    IF result.success
    THEN IF result.prompt_eval_count > mx
         THEN [max_with_numctx |-> result.prompt_eval_count,
               best_numctx |-> IF bn = None THEN num_ctx ELSE bn,
               brk |-> FALSE]
         ELSE [max_with_numctx |-> mx,
               best_numctx |-> bn,
               brk |-> result.prompt_eval_count * 10 <= mx * 11]
    ELSE [max_with_numctx |-> mx, best_numctx |-> bn, brk |-> TRUE]

\* phase 2, the body of the loop after the probe: the best count and its
\* num_ctx so far, and whether the loop breaks
NumCtxStep(mx, bn, num_ctx, result) ==
    IF result.success
    THEN IF result.prompt_eval_count > mx
         THEN [max_with_numctx |-> result.prompt_eval_count,
               best_numctx |-> num_ctx,
               brk |-> FALSE]
         ELSE [max_with_numctx |-> mx,
               best_numctx |-> bn,
               brk |-> result.prompt_eval_count * 10 <= mx * 11]
    ELSE [max_with_numctx |-> mx, best_numctx |-> bn, brk |-> TRUE]

\* a recommendation rounded up
RecommendedContextCeil(mx) == (mx * 8 + 9) \div 10

\* results["recommended_context"] = int(max_with_numctx * 0.8)
RecommendedContext(mx) == ScaleDown(mx, 8)

\* what the endpoint answers to a context probe
InAnswers ==
    [ok : {TRUE}, tokens : InTokens, cause : {"none"}]
      \cup [ok : {FALSE}, tokens : {0}, cause : Failures]

\* elapsed time and throughput are only read by the performance phase
PerfTokens == {8180}
PerfAnswers ==
    [ok : {TRUE}, tokens : PerfTokens, time : Elapsed, cause : {"none"}]
      \cup [ok : {FALSE}, tokens : {0}, time : {0}, cause : Failures]

\* test_contexts of test_model_comprehensive
PerfContexts(max_context) ==
    <<2000, 4000, 8000>>
      \o (IF max_context > 16000 THEN <<16000>> ELSE <<>>)
      \o (IF max_context > 32000 THEN <<32000>> ELSE <<>>)

\* round(prompt_eval_count / response_time_s, 1), in tenths of a token per
\* second; exact for the elapsed times of Elapsed
TokensPerSec(prompt_eval, time_s) ==
    IF time_s > 0 THEN (prompt_eval * 10) \div time_s ELSE 0

\* --------------------------------------------------- smart_context_test.py
native_test_sizes == <<4096, 8192, 16384, 32768, 65536, 131072, 196608>>
num_predict_values == <<1024, 2048, 4096, 8192, 16384>>

\* what the endpoint answers to the /api/show call of get_model_info: the
\* details of the model, with the context length it declares if any
ShowAnswers ==
    [ok : {TRUE}, context_length : {None, 2048}]
      \cup [ok : {FALSE}, context_length : {None}]

\* the dictionary get_model_info returns when the call fails, raises or is
\* answered with another status than 200: {}
EmptyInfo == [found |-> FALSE, family |-> "unknown", context_length |-> None]

\* get_model_info: a is the endpoint's answer
get_model_info(a) ==
    IF a.ok
    THEN [found |-> TRUE, family |-> "llama", context_length |-> a.context_length]
    ELSE EmptyInfo

\* len("test " * (num_ctx // 2)) // 4
InputApprox(num_ctx) == (5 * (num_ctx \div 2)) \div 4

\* tokens < input_approx * 0.8
TruncatedSmart(tokens, input_approx) == tokens * 10 < input_approx * 8

\* f"HTTP {resp.status_code}", str(e)[:50]
ErrorSmart(f) ==
    IF f = "status" THEN <<"HTTP 500">> ELSE <<ExceptionText(f)[1]>>

\* test_context of smart_context_test: o is the endpoint's answer
test_context(num_ctx, o) ==
    IF o.ok
    THEN [success |-> TRUE,
          input_approx |-> InputApprox(num_ctx),
          tokens_processed |-> o.tokens,
          truncated |-> TruncatedSmart(o.tokens, InputApprox(num_ctx)),
          error |-> <<>>]
    ELSE [success |-> FALSE,
          input_approx |-> 0,
          tokens_processed |-> 0,
          truncated |-> FALSE,
          error |-> ErrorSmart(o.cause)]

\* tokens <= prev_tokens * 1.1 and prev_tokens > 0
Plateau(tokens, prev) == tokens * 10 <= prev * 11 /\ prev > 0

\* a find_native_limit that never remembers the count of an OK probe
NativeStepNoPrev(prev, nl, hl, test) ==
    IF ~test.success
    THEN [prev_tokens |-> prev, native_limit |-> nl, hardware_limit |-> prev,
          brk |-> TRUE]
    ELSE IF test.truncated
    THEN [prev_tokens |-> prev, native_limit |-> test.tokens_processed,
          hardware_limit |-> hl, brk |-> TRUE]
    ELSE IF Plateau(test.tokens_processed, prev)
    THEN [prev_tokens |-> prev, native_limit |-> test.tokens_processed,
          hardware_limit |-> hl, brk |-> TRUE]
    ELSE [prev_tokens |-> prev,
          native_limit |-> test.tokens_processed,
          hardware_limit |-> hl, brk |-> FALSE]

\* find_native_limit, the body of the loop after the probe
NativeStep(prev, nl, hl, test) ==
    IF ~test.success
    THEN [prev_tokens |-> prev, native_limit |-> nl, hardware_limit |-> prev,
          brk |-> TRUE]
    ELSE IF test.truncated
    THEN [prev_tokens |-> prev, native_limit |-> test.tokens_processed,
          hardware_limit |-> hl, brk |-> TRUE]
    ELSE IF Plateau(test.tokens_processed, prev)
    THEN [prev_tokens |-> prev, native_limit |-> test.tokens_processed,
          hardware_limit |-> hl, brk |-> TRUE]
    ELSE [prev_tokens |-> test.tokens_processed,
          native_limit |-> test.tokens_processed,
          hardware_limit |-> hl, brk |-> FALSE]

\* result["recommended_input"] = int(native_limit * 0.9)
RecommendedInput(nl) == ScaleDown(nl, 9)

\* what the endpoint answers to a probe of find_native_limit
NativeAnswers ==
    [ok : {TRUE}, tokens : NativeTokens, cause : {"none"}]
      \cup [ok : {FALSE}, tokens : {0}, cause : Failures]

\* what the endpoint answers to an output-limit probe
OutAnswers ==
    [ok : {TRUE}, tokens : OutTokens, cause : {"none"}]
      \cup [ok : {FALSE}, tokens : {0}, cause : Failures]

\* output_tokens < num_predict and output_tokens <= max_output * 1.1
OutputLimitFound(output_tokens, num_predict, best) ==
    output_tokens < num_predict /\ output_tokens * 10 <= best * 11

\* test_output_limit, the body of the loop after the call
OutputStep(mo, num_predict, o) ==
    IF o.ok
    THEN IF OutputLimitFound(o.tokens, num_predict, mo)
         THEN [max_output |-> mo, brk |-> TRUE]
         ELSE [max_output |-> Max(mo, o.tokens), brk |-> FALSE]
    ELSE [max_output |-> mo, brk |-> TRUE]

\* --------------------------------------------------- batch_context_test.py
context_sizes == <<4096, 8192, 16384, 32768, 65536, 131072, 196608, 262144, 524288>>

\* what the endpoint answers to a probe of batch_context_test
BatchAnswers ==
    [ok : {TRUE}, tokens : BatchTokens, cause : {"none"}]
      \cup [ok : {FALSE}, tokens : {0}, cause : Failures]

\* test_context of batch_context_test: (success, tokens or error text)
batch_test_context(num_ctx, o) ==
    IF o.ok
    THEN [ok |-> TRUE, tokens |-> o.tokens, error |-> <<>>]
    ELSE [ok |-> FALSE, tokens |-> 0, error |-> ErrorSmart(o.cause)]

\* the test_record of a probe
BatchRecord(ctx, t) ==
    IF t.ok
    THEN [num_ctx |-> ctx, success |-> TRUE, tokens |-> t.tokens]
    ELSE [num_ctx |-> ctx, success |-> FALSE, error |-> t.error]

\* a find_max_context that keeps the largest token count seen
BatchStepLargest(ms, mt, ctx, t) ==
    IF t.ok
    THEN [max_successful |-> ctx, max_tokens |-> Max(mt, t.tokens), brk |-> FALSE]
    ELSE [max_successful |-> ms, max_tokens |-> mt, brk |-> TRUE]

\* find_max_context of batch_context_test, the body of the loop after the
\* probe
BatchStep(ms, mt, ctx, t) ==
    IF t.ok
    THEN [max_successful |-> ctx, max_tokens |-> t.tokens, brk |-> FALSE]
    ELSE [max_successful |-> ms, max_tokens |-> mt, brk |-> TRUE]

\* result["recommended_ctx"] = int(max_successful * 0.85)
RecommendedCtx(ms) == (ms * 85) \div 100

\* ------------------------------------------------------------------ state
VARIABLES
    script,          \* which script's main() is running
    comprehensive,   \* --comprehensive / -c  (context_length_test only)
    mi,              \* position in the list of models
    pc,              \* the loop the current model is in
    idx,             \* position in that loop's list
    default_max, max_with_numctx, best_numctx,        \* find_max_context
    prev_tokens, native_limit, hardware_limit,        \* find_native_limit
    max_output,                                       \* test_output_limit
    info,            \* info of find_native_limit: what get_model_info returned
    max_successful, max_tokens,                       \* batch find_max_context
    tests,           \* result["tests"] of the current model: the error text of
                     \* every record, <<>> for a successful one
    out_tests,       \* result["tests"] of test_output_limit
    perf_tests,      \* perf_tests of test_model_comprehensive
    results,         \* the dictionary of the model under test
    all_results,     \* the run report: of every entry, its model and its kind
    lastProbe,       \* the last call made to the endpoint
    lastResult       \* the dictionary the last context probe returned

vars == <<script, comprehensive, mi, pc, idx, default_max, max_with_numctx,
          best_numctx, prev_tokens, native_limit, hardware_limit, max_output,
          tests, out_tests, perf_tests, results, all_results, lastProbe,
          lastResult, info, max_successful, max_tokens>>

NoResults == [kind |-> "none"]
NoResult == [success |-> FALSE, error |-> <<"none">>]
NoProbe ==
    [model |-> 0, regime |-> "none", param |-> 0, num_ctx |-> None, ok |-> FALSE,
     cause |-> "none"]

\* the loop a model's search starts in
StartPc(s) == IF s = "context_length" THEN "A" ELSE "B"

\* the state main() starts a run of the given scripts in
InitOf(scripts) ==
    /\ script \in scripts
    /\ comprehensive \in (IF script = "context_length" THEN BOOLEAN ELSE {FALSE})
    /\ mi = 1
    /\ pc = StartPc(script)
    /\ idx = 1
    /\ default_max = 0
    /\ max_with_numctx = None
    /\ best_numctx = None
    /\ prev_tokens = 0
    /\ native_limit = 0
    /\ hardware_limit = 0
    /\ max_output = 0
    /\ info = EmptyInfo
    /\ max_successful = 0
    /\ max_tokens = 0
    /\ tests = <<>>
    /\ out_tests = <<>>
    /\ perf_tests = <<>>
    /\ results = NoResults
    /\ all_results = <<>>
    /\ lastProbe = NoProbe
    /\ lastResult = NoResult

Init == InitOf({"context_length", "smart"})

\* a test that returns as soon as its first loop ends
AfterRegimeReturn(regime) == "return"

\* a main() that runs test_model_comprehensive whatever the flag
AfterRegimeAlwaysPerf(regime) ==
    CASE regime = "A" -> "B"
      [] regime = "B" /\ script = "smart" -> "C"
      [] regime = "B" -> "P"
      [] OTHER -> "return"

\* a find_max_context that starts over with phase 1 when phase 2 ends
AfterRegimeStartOver(regime) ==
    CASE regime = "A" -> "B"
      [] regime = "B" /\ script = "smart" -> "C"
      [] regime = "B" -> "A"
      [] OTHER -> "return"

\* where a model's test goes when a loop ends: find_max_context runs phase 2
\* after phase 1 and test_model_comprehensive phase 3 after that;
\* test_model_complete runs test_output_limit after find_native_limit
AfterRegime(regime) ==
    CASE regime = "A" -> "B"
      [] regime = "B" /\ script = "smart" -> "C"
      [] regime = "B" /\ comprehensive -> "P"
      [] OTHER -> "return"

\* a call to the endpoint: the value of the loop's list it is made for and the
\* num_ctx option it carries, None if it carries none
Probed(regime, param, num_ctx, o) ==
    [model |-> mi, regime |-> regime, param |-> param, num_ctx |-> num_ctx,
     ok |-> o.ok, cause |-> o.cause]

\* a main() whose searches keep their counts from one model to the next
NextModelStale(entry) ==
    /\ all_results' = Append(all_results, entry)
    /\ mi' = mi + 1
    /\ pc' = IF mi = NumModels THEN "done" ELSE StartPc(script)
    /\ idx' = 1
    /\ max_with_numctx' = None
    /\ best_numctx' = None
    /\ max_output' = 0
    /\ info' = EmptyInfo
    /\ max_successful' = 0
    /\ max_tokens' = 0
    /\ tests' = <<>>
    /\ out_tests' = <<>>
    /\ perf_tests' = <<>>
    /\ results' = NoResults
    /\ UNCHANGED <<default_max, prev_tokens, native_limit, hardware_limit>>

\* a main() whose models share one tests list
NextModelSharedTests(entry) ==
    /\ all_results' = Append(all_results, entry)
    /\ mi' = mi + 1
    /\ pc' = IF mi = NumModels THEN "done" ELSE StartPc(script)
    /\ idx' = 1
    /\ default_max' = 0
    /\ max_with_numctx' = None
    /\ best_numctx' = None
    /\ prev_tokens' = 0
    /\ native_limit' = 0
    /\ hardware_limit' = 0
    /\ max_output' = 0
    /\ info' = EmptyInfo
    /\ max_successful' = 0
    /\ max_tokens' = 0
    /\ out_tests' = <<>>
    /\ perf_tests' = <<>>
    /\ results' = NoResults
    /\ UNCHANGED tests

\* main(): the entry is appended and the loop moves to the next model, whose
\* search starts with fresh locals
NextModel(entry) ==
    /\ all_results' = Append(all_results, entry)
    /\ mi' = mi + 1
    /\ pc' = IF mi = NumModels THEN "done" ELSE StartPc(script)
    /\ idx' = 1
    /\ default_max' = 0
    /\ max_with_numctx' = None
    /\ best_numctx' = None
    /\ prev_tokens' = 0
    /\ native_limit' = 0
    /\ hardware_limit' = 0
    /\ max_output' = 0
    /\ info' = EmptyInfo
    /\ max_successful' = 0
    /\ max_tokens' = 0
    /\ tests' = <<>>
    /\ out_tests' = <<>>
    /\ perf_tests' = <<>>
    /\ results' = NoResults

\* the dictionary find_max_context returns
MaxContextResults(t, dm, mx, bn) ==
    [model |-> mi,
     kind |-> "profile",
     default_context |-> dm,
     max_context_with_num_ctx |-> mx,
     optimal_num_ctx |-> bn,
     recommended_context |-> RecommendedContext(mx),
     tests |-> t,
     performance |-> <<>>]

\* find_max_context, phase 1: one pass of the loop over test_sizes
ProbeDefault(o) ==
    /\ script = "context_length" /\ pc = "A"
    /\ LET size == test_sizes[idx]
           result == test_single_context(size, None, o)
           step == DefaultStep(default_max, result)
           dm == step.default_max
           last == step.brk \/ idx = Len(test_sizes)
       IN  /\ tests' = Append(tests, result.error)
           /\ default_max' = dm
           /\ lastProbe' = Probed("A", size, None, o)
           /\ lastResult' = result
           /\ IF last
              THEN /\ pc' = AfterRegime("A")
                   /\ idx' = 1
                   /\ max_with_numctx' = dm
                   /\ best_numctx' = None
              ELSE /\ idx' = idx + 1
                   /\ UNCHANGED <<pc, max_with_numctx, best_numctx>>
    /\ UNCHANGED <<script, comprehensive, mi, prev_tokens, native_limit,
                   hardware_limit, max_output, out_tests, perf_tests, results,
                   all_results, info, max_successful, max_tokens>>

\* find_max_context, phase 2: one pass of the loop over num_ctx_values, and
\* after the last pass the rest of the function
ProbeNumCtx(o) ==
    /\ script = "context_length" /\ pc = "B"
    /\ LET num_ctx == num_ctx_values[idx]
           test_size == ScaleDown(num_ctx, 9)
           result == test_single_context(test_size, num_ctx, o)
           step == NumCtxStep(max_with_numctx, best_numctx, num_ctx, result)
           mx == step.max_with_numctx
           bn == step.best_numctx
           last == step.brk \/ idx = Len(num_ctx_values)
           t == Append(tests, result.error)
       IN  /\ lastProbe' = Probed("B", num_ctx, num_ctx, o)
           /\ lastResult' = result
           /\ tests' = t
           /\ max_with_numctx' = mx
           /\ best_numctx' = bn
           /\ IF ~last
              THEN /\ idx' = idx + 1
                   /\ UNCHANGED <<pc, results>>
              ELSE /\ results' = MaxContextResults(t, default_max, mx, bn)
                   /\ idx' = 1
                   /\ pc' = AfterRegime("B")
    /\ UNCHANGED <<script, comprehensive, mi, default_max, prev_tokens,
                   native_limit, hardware_limit, max_output, out_tests,
                   perf_tests, all_results, info, max_successful, max_tokens>>

\* test_model_comprehensive, phase 3: one pass of the loop over test_contexts
ProbePerf(o) ==
    /\ script = "context_length" /\ pc = "P"
    /\ LET test_contexts == PerfContexts(results.max_context_with_num_ctx)
           ctx == test_contexts[idx]
           optimal_ctx == PyOr(results.optimal_num_ctx, results.max_context_with_num_ctx)
           result == test_single_context(ctx, optimal_ctx, o)
           p == IF result.success
                THEN Append(perf_tests,
                            [context_size |-> ctx,
                             time_s |-> o.time,
                             tokens_per_sec |-> TokensPerSec(result.prompt_eval_count, o.time)])
                ELSE perf_tests
       IN  /\ lastProbe' = Probed("P", ctx, optimal_ctx, o)
           /\ lastResult' = result
           /\ perf_tests' = p
           /\ IF idx < Len(test_contexts)
              THEN /\ idx' = idx + 1
                   /\ UNCHANGED <<pc, results>>
              ELSE /\ results' = [results EXCEPT !.performance = p]
                   /\ idx' = 1
                   /\ pc' = AfterRegime("P")
    /\ UNCHANGED <<script, comprehensive, mi, default_max, max_with_numctx,
                   best_numctx, prev_tokens, native_limit, hardware_limit,
                   max_output, tests, out_tests, all_results, info,
                   max_successful, max_tokens>>

\* a find_native_limit that trusts the context length the model declares
NativeLimitResultDeclared(inf, t, nl, hl) ==
    LET cap == IF Truthy(inf.context_length) THEN Min(nl, inf.context_length) ELSE nl
    IN  [model |-> mi,
         kind |-> "profile",
         info |-> inf,
         tests |-> t,
         native_context |-> cap,
         hardware_limit |-> PyOr(hl, NotReached),
         recommended_input |-> RecommendedInput(cap),
         output |-> [tests |-> <<>>, max_output |-> None]]

\* the dictionary find_native_limit returns
NativeLimitResult(inf, t, nl, hl) ==
    [model |-> mi,
     kind |-> "profile",
     info |-> inf,
     tests |-> t,
     native_context |-> nl,
     hardware_limit |-> PyOr(hl, NotReached),
     recommended_input |-> RecommendedInput(nl),
     output |-> [tests |-> <<>>, max_output |-> None]]

\* find_native_limit: one pass of the loop over test_sizes, before the first
\* pass the call of get_model_info (a is the endpoint's answer to it), and
\* after the last pass the rest of the function
ProbeNative(o, a) ==
    /\ script = "smart" /\ pc = "B"
    /\ LET num_ctx == native_test_sizes[idx]
           inf == IF idx = 1 THEN get_model_info(a) ELSE info
           test == test_context(num_ctx, o)
           step == NativeStep(prev_tokens, native_limit, hardware_limit, test)
           nl == step.native_limit
           hl == step.hardware_limit
           last == step.brk \/ idx = Len(native_test_sizes)
           t == Append(tests, test.error)
       IN  /\ lastProbe' = Probed("B", num_ctx, num_ctx, o)
           /\ lastResult' = test
           /\ tests' = t
           /\ hardware_limit' = hl
           /\ native_limit' = nl
           /\ prev_tokens' = step.prev_tokens
           /\ info' = inf
           /\ IF ~last
              THEN /\ idx' = idx + 1
                   /\ UNCHANGED <<pc, results>>
              ELSE /\ results' = NativeLimitResult(inf, t, nl, hl)
                   /\ idx' = 1
                   /\ pc' = AfterRegime("B")
    /\ UNCHANGED <<script, comprehensive, mi, default_max, max_with_numctx,
                   best_numctx, max_output, out_tests, perf_tests, all_results,
                   max_successful, max_tokens>>

\* ctx of test_model_complete: the num_ctx of the output-limit probes
OutputCtx(r) == Min(r.native_context, 131072)

\* test_output_limit: one pass of the loop over num_predict, and after the
\* last pass the rest of the function and of test_model_complete
ProbeOutput(o) ==
    /\ script = "smart" /\ pc = "C"
    /\ LET num_predict == num_predict_values[idx]
           ctx == OutputCtx(results)
           t == IF o.ok
                THEN Append(out_tests, [num_predict |-> num_predict,
                                        actual_output |-> o.tokens])
                ELSE out_tests
           step == OutputStep(max_output, num_predict, o)
           mo == step.max_output
           last == step.brk \/ idx = Len(num_predict_values)
       IN  /\ lastProbe' = Probed("C", num_predict, ctx, o)
           /\ out_tests' = t
           /\ max_output' = mo
           /\ IF ~last
              THEN /\ idx' = idx + 1
                   /\ UNCHANGED <<pc, results>>
              ELSE /\ results' = [results EXCEPT
                                    !.output = [tests |-> t, max_output |-> mo]]
                   /\ idx' = 1
                   /\ pc' = AfterRegime("C")
    /\ UNCHANGED <<script, comprehensive, mi, default_max, max_with_numctx,
                   best_numctx, prev_tokens, native_limit, hardware_limit,
                   tests, perf_tests, all_results, lastResult, info,
                   max_successful, max_tokens>>

\* the dictionary find_max_context of batch_context_test returns
BatchResults(t, ms, mt) ==
    [model |-> mi,
     kind |-> "profile",
     tests |-> t,
     max_num_ctx |-> ms,
     max_tokens |-> mt,
     recommended_ctx |-> RecommendedCtx(ms)]

\* find_max_context of batch_context_test: one pass of the loop over
\* context_sizes, and after the last pass the rest of the function
ProbeBatch(o) ==
    /\ script = "batch" /\ pc = "B"
    /\ LET ctx == context_sizes[idx]
           test == batch_test_context(ctx, o)
           step == BatchStep(max_successful, max_tokens, ctx, test)
           last == step.brk \/ idx = Len(context_sizes)
           t == Append(tests, BatchRecord(ctx, test))
       IN  /\ lastProbe' = Probed("B", ctx, ctx, o)
           /\ lastResult' = [success |-> test.ok, error |-> test.error]
           /\ tests' = t
           /\ max_successful' = step.max_successful
           /\ max_tokens' = step.max_tokens
           /\ IF ~last
              THEN /\ idx' = idx + 1
                   /\ UNCHANGED <<pc, results>>
              ELSE /\ results' = BatchResults(t, step.max_successful,
                                              step.max_tokens)
                   /\ idx' = 1
                   /\ pc' = AfterRegime("B")
    /\ UNCHANGED <<script, comprehensive, mi, default_max, max_with_numctx,
                   best_numctx, prev_tokens, native_limit, hardware_limit,
                   max_output, out_tests, perf_tests, all_results, info>>

\* what the run report keeps of a dictionary appended to it: the model it
\* is for and whether it is a profile or an error record.  The dictionary
\* itself is the one the model's test returned, held by results when it is
\* appended.
Summary(r) == [model |-> r.model, kind |-> r.kind]

\* main(): the model's test returned, all_results.append(results)
AppendResults ==
    /\ pc = "return"
    /\ NextModel(Summary(results))
    /\ UNCHANGED <<script, comprehensive, lastProbe, lastResult>>

\* a main() without the handler: the exception ends the run
ModelErrorAbort ==
    /\ pc \in (IF script = "smart" THEN {"B"} ELSE {"A", "B", "P"})
    /\ pc' = "done"
    /\ UNCHANGED <<script, comprehensive, mi, idx, default_max, max_with_numctx,
                   best_numctx, prev_tokens, native_limit, hardware_limit,
                   max_output, tests, out_tests, perf_tests, results,
                   all_results, lastProbe, lastResult, info, max_successful,
                   max_tokens>>

\* a main() whose handler only prints the exception
ModelErrorSilent ==
    /\ pc \in (IF script = "smart" THEN {"B"} ELSE {"A", "B", "P"})
    /\ mi' = mi + 1
    /\ pc' = IF mi = NumModels THEN "done" ELSE StartPc(script)
    /\ idx' = 1
    /\ default_max' = 0
    /\ max_with_numctx' = None
    /\ best_numctx' = None
    /\ prev_tokens' = 0
    /\ native_limit' = 0
    /\ hardware_limit' = 0
    /\ max_output' = 0
    /\ info' = EmptyInfo
    /\ max_successful' = 0
    /\ max_tokens' = 0
    /\ tests' = <<>>
    /\ out_tests' = <<>>
    /\ perf_tests' = <<>>
    /\ results' = NoResults
    /\ UNCHANGED <<script, comprehensive, all_results, lastProbe, lastResult>>

\* main(): an exception escapes the model's test (the prompt of a probe is
\* built outside every try block) and the handler records it
ModelError ==
    /\ pc \in (IF script = "smart" THEN {"B"} ELSE {"A", "B", "P"})
    /\ NextModel([model |-> mi, kind |-> "error", error |-> <<"MemoryError">>])
    /\ UNCHANGED <<script, comprehensive, lastProbe, lastResult>>

Next ==
    \/ \E o \in InAnswers : ProbeDefault(o)
    \/ \E o \in InAnswers : ProbeNumCtx(o)
    \/ \E o \in PerfAnswers : ProbePerf(o)
    \/ \E o \in NativeAnswers, a \in ShowAnswers : ProbeNative(o, a)
    \/ \E o \in OutAnswers : ProbeOutput(o)
    \/ AppendResults
    \/ ModelError

Spec == Init /\ [][Next]_vars

\* the runs in which every call returns and nothing raises: main() is a
\* sequential program, which takes its next step whenever it has one
NextReturns ==
    \/ \E o \in InAnswers : ProbeDefault(o)
    \/ \E o \in InAnswers : ProbeNumCtx(o)
    \/ \E o \in PerfAnswers : ProbePerf(o)
    \/ \E o \in NativeAnswers, a \in ShowAnswers : ProbeNative(o, a)
    \/ \E o \in OutAnswers : ProbeOutput(o)
    \/ AppendResults

SpecReturns == Init /\ [][NextReturns]_vars /\ WF_vars(NextReturns)

\* a run of batch_context_test
InitBatch == InitOf({"batch"})

NextBatch ==
    \/ \E o \in BatchAnswers : ProbeBatch(o)
    \/ AppendResults
    \/ ModelError

SpecBatch == InitBatch /\ [][NextBatch]_vars

\* ----------------------------------------------------------------- claims
\* a pass of the loop of the given phase: a probe and what the loop does
\* with its result
ProbeStepIn(regime) == pc = regime /\ all_results' = all_results

\* the running value of the native context during extended-window discovery
RunningNative == IF script = "context_length" THEN max_with_numctx ELSE native_limit

\* the count the last context probe observed
Observed ==
    IF script = "context_length"
    THEN lastResult.prompt_eval_count
    ELSE lastResult.tokens_processed

\* the best count of the probes before, in extended-window discovery
PrevBest == IF script = "context_length" THEN max_with_numctx ELSE prev_tokens

\* C1: every profile find_max_context returns has max_context_with_num_ctx
\* greater than or equal to default_context.
C1_NativeAtLeastDefault ==
    script = "context_length" /\ results.kind = "profile" =>
      results.max_context_with_num_ctx >= results.default_context

\* a profile whose last num_ctx probe observed fewer tokens than the default
\* limit found before
C1_Witness ==
    /\ script = "context_length"
    /\ results.kind = "profile"
    /\ results.default_context = 9000
    /\ lastProbe.regime = "B"
    /\ lastResult.success
    /\ lastResult.prompt_eval_count = 4093

\* C2: in extended-window discovery the running native context never
\* decreases over a successful probe (find_max_context's max_with_numctx,
\* find_native_limit's native_limit).
C2_RunningNativeNonDecreasing ==
    [][ProbeStepIn("B") /\ lastResult'.success => RunningNative' >= RunningNative]_vars

\* C3: the recommended input of a completed profile is floor(native * margin),
\* margin 0.8 in find_max_context and 0.9 in find_native_limit, and is not
\* above the native context.
C3_RecommendedIsFloor ==
    results.kind = "profile" =>
      IF script = "context_length"
      THEN LET n == results.max_context_with_num_ctx
               r == results.recommended_context
           IN  r * 10 <= n * 8 /\ n * 8 < (r + 1) * 10 /\ r <= n
      ELSE LET n == results.native_context
               r == results.recommended_input
           IN  r * 10 <= n * 9 /\ n * 9 < (r + 1) * 10 /\ r <= n

\* a profile whose native context times the margin is not a whole number
C3_Witness ==
    /\ script = "context_length"
    /\ results.kind = "profile"
    /\ results.max_context_with_num_ctx = 4093
    /\ results.recommended_context = 3274

\* C4: in extended-window discovery a successful probe that observes at most
\* 1.1 times the best count before it, a probe of the regime having
\* succeeded before, ends the regime.
C4_PlateauEndsRegime ==
    [][ProbeStepIn("B") /\ idx > 1 /\ lastResult'.success
         /\ Observed' * 10 <= PrevBest * 11
       => pc' # "B"]_vars

\* C5: a successful probe is flagged truncated exactly when the reported
\* input tokens are below 0.9 of the chars/4 estimate (test_single_context)
\* or 0.8 of it (smart test_context); a probe for 16000 tokens that
\* observes 9000 is truncated.
C5_TruncatedBelowThreshold ==
    lastResult.success =>
      IF script = "context_length"
      THEN /\ lastResult.truncated <=>
                lastResult.prompt_eval_count * 10 < lastResult.actual_tokens_approx * 9
           /\ lastResult.target_tokens = 16000 =>
                /\ lastResult.actual_tokens_approx = 15012
                /\ lastResult.prompt_eval_count = 9000 => lastResult.truncated
      ELSE lastResult.truncated <=>
             lastResult.tokens_processed * 10 < lastResult.input_approx * 8

\* the probe for 16000 tokens that observes 9000
C5_Witness ==
    /\ script = "context_length"
    /\ lastResult.success
    /\ lastResult.target_tokens = 16000
    /\ lastResult.prompt_eval_count = 9000
    /\ lastResult.truncated

\* the native context a profile reports
NativeOf(r) ==
    IF script = "context_length" THEN r.max_context_with_num_ctx ELSE r.native_context

AllProbesFailed ==
    /\ tests # <<>>
    /\ \A i \in 1..Len(tests) : tests[i] # <<>>
    /\ out_tests = <<>>
    /\ perf_tests = <<>>

\* C7: a model whose probes all failed returns a profile with native context
\* 0 that holds the failure texts, and main() appends exactly one entry for
\* that model to the run report.
C7_AllFailedProfile ==
    [][pc = "return" /\ AllProbesFailed
       => /\ results.kind = "profile"
          /\ NativeOf(results) = 0
          /\ results.tests = tests
          /\ \A i \in 1..Len(all_results) : all_results[i].model # mi
          /\ Len(all_results') = Len(all_results) + 1
          /\ Last(all_results').model = mi
          /\ Last(all_results').kind = "profile"]_vars

\* the second model's probes all failed, after a first model with a profile
C7_Witness ==
    /\ script = "smart"
    /\ mi = 2
    /\ all_results[1].kind = "profile"
    /\ pc = "return"
    /\ AllProbesFailed

\* C8: the run report has one entry per model processed, in the order of the
\* list, a profile or an error record of that model; the run ends only
\* after the last model, and an entry for model i, error or not, is
\* followed by the search of model i+1.
C8_OneEntryPerModel ==
    /\ [](/\ Len(all_results) = mi - 1
          /\ \A i \in 1..Len(all_results) :
               /\ all_results[i].model = i
               /\ all_results[i].kind \in {"profile", "error"}
          /\ pc = "done" <=> mi = NumModels + 1)
    /\ [][all_results' # all_results
          => /\ all_results' = Append(all_results, Last(all_results'))
             /\ mi' = mi + 1
             /\ mi < NumModels => pc' = StartPc(script) /\ idx' = 1]_vars

\* a run whose first model raised and whose second model has a profile
C8_Witness ==
    /\ pc = "done"
    /\ Len(all_results) = NumModels
    /\ all_results[1].kind = "error"
    /\ all_results[NumModels].kind = "profile"

\* the first value of the list of a loop
FirstOf(regime) ==
    CASE regime = "A" -> test_sizes[1]
      [] regime = "B" /\ script = "context_length" -> num_ctx_values[1]
      [] regime = "B" /\ script = "smart" -> native_test_sizes[1]
      [] regime = "C" -> num_predict_values[1]
      [] OTHER -> 2000

\* C9: a failed probe of regime A, B or C raises nothing: the executor
\* returns a failed result, the regime ends with that pass of its loop, and
\* the model's test goes on with the next regime, whose first probe is the
\* next call made.
C9_FailureEndsRegimeOnly ==
    [][/\ (pc \in {"A", "B", "C"} /\ all_results' = all_results /\ ~lastProbe'.ok)
          => /\ mi' = mi
             /\ pc' = AfterRegime(pc)
             /\ pc' # pc
             /\ idx' = 1
             /\ pc # "C" => ~lastResult'.success /\ lastResult'.error # <<>>
       /\ (idx = 1 /\ lastProbe' # lastProbe)
          => /\ lastProbe'.regime = pc
             /\ lastProbe'.param = FirstOf(pc)]_vars

\* phase 1 failed at its first probe and phase 2 made its first probe
C9_Witness ==
    /\ script = "context_length"
    /\ Len(tests) = 2
    /\ tests[1] # <<>>
    /\ lastProbe.model = mi /\ lastProbe.regime = "B" /\ lastProbe.param = 8192

\* C10 as stated: when the first regime of a model ended on a failed first
\* probe, no probe of a later regime is made for that model.
C10_SkipAfterHardFailure ==
    ~ /\ tests # <<>>
      /\ tests[1] # <<>>
      /\ lastProbe.model = mi
      /\ lastProbe.regime \in (IF script = "smart" THEN {"C"} ELSE {"B", "P"})

Rank(p) ==
    CASE p = "A" -> 1
      [] p = "B" -> 2
      [] p \in {"C", "P"} -> 3
      [] p = "return" -> 4
      [] OTHER -> 5

\* C10, amended: the regimes of a model run in the order A, B, C, and a
\* regime that ends on a failed probe without any successful probe does not
\* stop the search: the next regime starts at its first value.
C10_RegimesInOrder ==
    [][/\ mi' = mi => Rank(pc') >= Rank(pc)
       /\ lastProbe' # lastProbe => lastProbe'.regime = pc /\ lastProbe'.model = mi
       /\ (pc = StartPc(script) /\ idx = 1 /\ all_results' = all_results
             /\ ~lastProbe'.ok)
          => /\ mi' = mi
             /\ pc' \in {"B", "C", "P"}
             /\ Rank(pc') = Rank(pc) + 1
             /\ idx' = 1]_vars

\* find_native_limit failed at its first probe and an output-limit probe
\* was made
C10_Witness ==
    /\ script = "smart"
    /\ Len(tests) = 1
    /\ tests[1] # <<>>
    /\ lastProbe.model = mi /\ lastProbe.regime = "C"

\* the error text the script's executor gives a failed call
ErrorOf(f) == IF script = "context_length" THEN ErrorCL(f) ELSE ErrorSmart(f)

\* C11: a failed call of the executor (test_single_context, test_context)
\* returns success = false with an error text that tells which of the
\* three causes occurred: no other cause gives the same text.
C11_FailureCausesDistinct ==
    lastProbe.regime \in {"A", "B", "P"} /\ ~lastProbe.ok =>
      /\ ~lastResult.success
      /\ lastResult.error = ErrorOf(lastProbe.cause)
      /\ \A f \in Failures : ErrorOf(f) = lastResult.error => f = lastProbe.cause

\* the list a loop goes through
ListOf(regime) ==
    CASE regime = "A" -> test_sizes
      [] regime = "B" /\ script = "context_length" -> num_ctx_values
      [] regime = "B" /\ script = "smart" -> native_test_sizes
      [] regime = "C" -> num_predict_values
      [] OTHER -> PerfContexts(results.max_context_with_num_ctx)

\* a step that calls the endpoint
ProbeStep == lastProbe' # lastProbe

\* the probe of a step is the next value of the list of its regime, and
\* the probe before it in the regime was the value before
ForwardOnlyStep ==
    ProbeStep /\ pc \in {"A", "B", "C"} =>
      /\ lastProbe'.model = mi
      /\ lastProbe'.regime = pc
      /\ idx \in 1..Len(ListOf(pc))
      /\ lastProbe'.param = ListOf(pc)[idx]
      /\ idx > 1 => /\ lastProbe.model = mi
                    /\ lastProbe.regime = pc
                    /\ lastProbe.param = ListOf(pc)[idx - 1]
                    /\ lastProbe.param < lastProbe'.param
      /\ pc' = pc => mi' = mi /\ idx' = idx + 1
      /\ pc' # pc => idx' = 1

\* the probe of a step has a terminal outcome: failed, truncated in A,
\* plateaued in B (at most 1.1 times the best before, after a first probe)
\* or the stop of C (less than asked for and at most 1.1 times the best)
TerminalOutcome ==
    CASE pc = "A" -> ~lastResult'.success \/ lastResult'.truncated
      [] pc = "B" -> \/ ~lastResult'.success
                     \/ idx > 1 /\ Observed' * 10 <= PrevBest * 11
      [] pc = "C" -> \/ ~lastProbe'.ok
                     \/ OutputLimitFound(Last(out_tests').actual_output,
                                         lastProbe'.param, max_output)
      [] OTHER -> FALSE

\* C12: within a regime of a model the probes are the values of the
\* regime's list in order, each once, and a probe with a terminal outcome
\* is the last of its regime.
C12_StrictEscalation ==
    [][/\ ForwardOnlyStep
       /\ ProbeStep /\ TerminalOutcome => pc' # pc]_vars

\* the probes of a regime are a strictly increasing prefix of its list
C12_ForwardOnly == [][ForwardOnlyStep]_vars

\* the last context probe succeeded and was not truncated
LastOk == lastResult.success /\ ~lastResult.truncated

\* C13: phase 1 of find_max_context probes 2000, 4000, 8000, 16000 in order
\* with num_ctx = None and ends at the first probe that failed or was
\* truncated or after the last size; default_max is 0 before the first
\* probe and the count of the last probe at every later one, all probes
\* before the stop being OK, and the profile's default_context is the
\* count of the last OK probe, 0 if there was none.
C13_DefaultLimit ==
    /\ [](script = "context_length" /\ pc = "A" =>
            IF idx = 1
            THEN default_max = 0
            ELSE /\ lastProbe.regime = "A" /\ lastProbe.model = mi
                 /\ LastOk
                 /\ default_max = lastResult.prompt_eval_count)
    /\ [](script = "context_length" /\ results.kind = "profile" =>
            results.default_context = default_max)
    /\ [][ProbeStepIn("A") =>
            /\ lastProbe'.param = <<2000, 4000, 8000, 16000>>[idx]
            /\ lastResult'.target_tokens = lastProbe'.param
            /\ lastResult'.num_ctx = None
            /\ pc' # "A" <=> (~LastOk' \/ idx = 4)
            /\ default_max' = IF LastOk' THEN lastResult'.prompt_eval_count
                              ELSE default_max
            /\ pc' # "A" => pc' = "B" /\ default_max' = max_with_numctx']_vars

\* 2000 and 4000 observed 4093, 8000 observed 4093 and was truncated
C13_Witness ==
    /\ script = "context_length"
    /\ pc = "B" /\ idx = 1
    /\ lastProbe.regime = "A" /\ lastProbe.param = 8000
    /\ lastResult.success /\ lastResult.truncated
    /\ lastResult.prompt_eval_count = 4093
    /\ Len(tests) = 3
    /\ default_max = 4093

\* the probe of a step of extended-window discovery is plateaued: it
\* succeeded, a probe of the regime was made before it, and it observed at
\* most 1.1 times the best count before it
PlateauedStep == lastResult'.success /\ idx > 1 /\ Observed' * 10 <= PrevBest * 11

\* C14: extended-window discovery ends with a probe exactly when the probe
\* failed, was plateaued or was the last of the list; when it ends on a
\* plateau the native context reported is the count of that probe, and
\* otherwise the best count achieved.
C14_StopsExactly ==
    [][ProbeStepIn("B") =>
         /\ pc' # "B" <=>
              (~lastResult'.success \/ PlateauedStep \/ idx = Len(ListOf("B")))
         /\ pc' # "B" =>
              NativeOf(results') =
                IF PlateauedStep THEN Observed'
                ELSE IF lastResult'.success THEN Max(PrevBest, Observed')
                ELSE PrevBest]_vars

\* a pass of phase 2 of find_max_context
NumCtxPass == script = "context_length" /\ ProbeStepIn("B")

\* C15 as stated: when phase 2 of find_max_context ends and one of its
\* probes succeeded, optimal_num_ctx is the num_ctx of a probe of phase 2.
C15_OptimalWindowAfterSuccess ==
    [][NumCtxPass /\ pc' # "B" /\ (idx > 1 \/ lastResult'.success)
       => \E i \in 1..idx : results'.optimal_num_ctx = num_ctx_values[i]]_vars

\* C15, amended: best_numctx changes only together with max_with_numctx, at
\* a successful probe that observed more than the best count so far, to
\* that probe's num_ctx and count; the profile reports the pair as
\* optimal_num_ctx and max_context_with_num_ctx, and optimal_num_ctx is None
\* exactly when no probe of phase 2 observed more than default_context.
C15_OptimalWindowOfBest ==
    /\ [](script = "context_length" /\ pc = "B" =>
            /\ best_numctx = None <=> max_with_numctx = default_max
            /\ best_numctx # None =>
                 /\ max_with_numctx > default_max
                 /\ lastProbe.regime = "B" /\ lastProbe.param = best_numctx
                 /\ lastResult.prompt_eval_count = max_with_numctx)
    /\ [](script = "context_length" /\ results.kind = "profile" =>
            /\ results.optimal_num_ctx = None <=>
                 results.max_context_with_num_ctx = results.default_context
            /\ results.optimal_num_ctx # None =>
                 results.max_context_with_num_ctx > results.default_context)
    /\ [][NumCtxPass =>
            /\ IF lastResult'.success /\ Observed' > max_with_numctx
               THEN /\ best_numctx' = lastProbe'.param
                    /\ max_with_numctx' = Observed'
               ELSE /\ best_numctx' = best_numctx
                    /\ max_with_numctx' = max_with_numctx
            /\ pc' # "B" =>
                 /\ results'.optimal_num_ctx = best_numctx'
                 /\ results'.max_context_with_num_ctx = max_with_numctx']_vars

\* num_ctx 8192 observed 9000, 16384 observed 4093: the profile reports 8192
C15_Witness ==
    /\ script = "context_length"
    /\ results.kind = "profile"
    /\ results.default_context = 0
    /\ results.optimal_num_ctx = 8192
    /\ results.max_context_with_num_ctx = 9000
    /\ lastProbe.regime = "B" /\ lastProbe.param = 16384
    /\ lastResult.success /\ lastResult.prompt_eval_count = 4093

\* the largest actual_output of the records of test_output_limit, 0 if none
MaxObservedOutput(t) ==
    LET S == {t[i].actual_output : i \in 1..Len(t)}
    IN  IF S = {} THEN 0 ELSE CHOOSE x \in S : \A y \in S : y <= x

\* C16: test_output_limit probes num_predict 1024, 2048, 4096, 8192, 16384
\* in order, ends at a probe whose output is below num_predict and at most
\* 1.1 times the best before, at a failed probe or after the last value,
\* and reports as max_output the largest output of all its successful
\* probes, the one that ended the loop included.
C16_MaxOutput ==
    [][ProbeStepIn("C") =>
         /\ lastProbe'.param = <<1024, 2048, 4096, 8192, 16384>>[idx]
         /\ pc' # "C" <=>
              \/ ~lastProbe'.ok
              \/ idx = 5
              \/ /\ Last(out_tests').actual_output < lastProbe'.param
                 /\ Last(out_tests').actual_output * 10 <= max_output * 11
         /\ pc' # "C" =>
              results'.output.max_output = MaxObservedOutput(out_tests')]_vars

\* when find_native_limit has just returned: the num_ctx of the probe that
\* observed the native context it reports, and default_context if it found
\* none
OptimalWindow ==
    IF results.native_context = 0 THEN default_max
    ELSE IF lastResult.success THEN lastProbe.param
    ELSE native_test_sizes[Len(tests) - 1]

\* C17: the first call of test_output_limit carries as num_ctx the num_ctx
\* of the probe of find_native_limit that observed the native context, or
\* default_context if there was none, and every later call of the loop
\* carries the same num_ctx.
C17_OutputProbesUseOptimalWindow ==
    [][ProbeStepIn("C") =>
         lastProbe'.num_ctx =
           IF idx = 1 THEN OptimalWindow ELSE lastProbe.num_ctx]_vars

\* the dictionary r has the key k
HasKey(r, k) == k \in DOMAIN r

\* the dictionary r holds a recommended_output that is not above its
\* max_output
RecommendedOutputIn(r) ==
    /\ HasKey(r, "recommended_output")
    /\ HasKey(r, "max_output")
    /\ r.recommended_output <= r.max_output

\* C18: the dictionary a model's test returns holds a recommended_output,
\* at its top level or under "output", that is not above max_output.
C18_RecommendedOutput ==
    pc = "return" =>
      \/ RecommendedOutputIn(results)
      \/ HasKey(results, "output") /\ RecommendedOutputIn(results.output)

\* a step of context_length_test in which a probe ends the given phase
PhaseEnds(regime) ==
    script = "context_length" /\ ProbeStepIn(regime) /\ pc' # regime

\* C19 as stated: with --comprehensive, phase 2 of a model is followed by
\* output-budget discovery.
C19_ComprehensiveRunsOutput ==
    [][PhaseEnds("B") /\ comprehensive => pc' = "C"]_vars

\* C19, amended: in context_length_test phase 1 is followed by phase 2;
\* with --comprehensive phase 2 is followed by the performance probes, one
\* for every size of test_contexts, and then the test returns; without the
\* flag the test returns after phase 2 and no performance probe is made;
\* with or without it no output-budget probe is made.
C19_ComprehensiveRunsPerf ==
    /\ [](script = "context_length" =>
            /\ pc \in {"A", "B", "P", "return", "done"}
            /\ lastProbe.regime \in {"none", "A", "B", "P"}
            /\ out_tests = <<>>
            /\ ~comprehensive => pc # "P" /\ lastProbe.regime # "P" /\ perf_tests = <<>>
            /\ pc = "return" =>
                 /\ lastProbe.model = mi
                 /\ lastProbe.regime = IF comprehensive THEN "P" ELSE "B")
    /\ [][/\ PhaseEnds("A") => pc' = "B" /\ idx' = 1
          /\ PhaseEnds("B") =>
               /\ pc' = IF comprehensive THEN "P" ELSE "return"
               /\ idx' = 1
          /\ script = "context_length" /\ ProbeStepIn("P") =>
               /\ lastProbe'.regime = "P"
               /\ lastProbe'.param = ListOf("P")[idx]
               /\ pc' = IF idx < Len(ListOf("P")) THEN "P" ELSE "return"]_vars

\* a comprehensive test returned after its three performance probes, the
\* second of which failed
C19_Witness ==
    /\ script = "context_length"
    /\ comprehensive
    /\ pc = "return"
    /\ lastProbe.regime = "P" /\ lastProbe.param = 8000 /\ lastProbe.ok
    /\ Len(perf_tests) = 2
    /\ perf_tests[1].context_size = 2000
    /\ perf_tests[2].context_size = 8000

\* C20: a performance probe adds one sample, for its size, to the curve
\* when it succeeded and was not truncated, and nothing otherwise; the
\* sizes of the samples are strictly ascending.
C20_PerfSamplesOk ==
    /\ [](\A i \in 1..Len(perf_tests) - 1 :
            perf_tests[i].context_size < perf_tests[i + 1].context_size)
    /\ [][ProbeStepIn("P") =>
            IF LastOk'
            THEN /\ Len(perf_tests') = Len(perf_tests) + 1
                 /\ Last(perf_tests').context_size = lastProbe'.param
            ELSE perf_tests' = perf_tests]_vars

\* a pass of the loop of find_native_limit
NativePass == script = "smart" /\ ProbeStepIn("B")

\* C21: what find_native_limit does is a function of the answers to its
\* probes alone, the same for every info get_model_info returned: the
\* probe of a pass is the next size of the list, the loop ends on a failed,
\* truncated or plateaued probe or after the last size, the limits follow
\* from the counts observed, and the profile holds info without using it.
C21_MetadataNeverGates ==
    [][NativePass =>
         LET tokens == lastResult'.tokens_processed
             failed == ~lastProbe'.ok
             truncated == ~failed /\ tokens * 10 < ((5 * (lastProbe'.param \div 2)) \div 4) * 8
             plateau == ~failed /\ ~truncated /\ prev_tokens > 0
                          /\ tokens * 10 <= prev_tokens * 11
             stop == failed \/ truncated \/ plateau
         IN  /\ lastProbe'.param = native_test_sizes[idx]
             /\ lastProbe'.num_ctx = lastProbe'.param
             /\ idx > 1 => info' = info
             /\ pc' # "B" <=> (stop \/ idx = 7)
             /\ native_limit' = IF failed THEN native_limit ELSE tokens
             /\ hardware_limit' = IF failed THEN prev_tokens ELSE hardware_limit
             /\ prev_tokens' = IF stop THEN prev_tokens ELSE tokens
             /\ pc' # "B" =>
                  /\ results'.info = info'
                  /\ results'.native_context = native_limit'
                  /\ results'.hardware_limit =
                       (IF hardware_limit' = 0 THEN NotReached ELSE hardware_limit')
                  /\ results'.recommended_input = (native_limit' * 9) \div 10]_vars

\* the model declares a context length of 2048 and the search, probing
\* past it, found 8180 tokens
C21_Witness ==
    /\ script = "smart"
    /\ info.found /\ info.context_length = 2048
    /\ results.kind = "profile"
    /\ results.info = info
    /\ results.native_context = 8180
    /\ lastProbe.regime = "B" /\ lastProbe.param = 16384

\* the lookup of the model's details failed and the search found 8180
\* tokens all the same
C21_WitnessNoInfo ==
    /\ script = "smart"
    /\ info = EmptyInfo
    /\ results.kind = "profile"
    /\ results.native_context = 8180
    /\ lastProbe.regime = "B" /\ lastProbe.param = 16384

\* no call has been made yet for the model the loop of main() is at
ModelNotStarted == mi <= NumModels /\ lastProbe.model # mi

\* C22: the search of every model starts in the state the first model's
\* search starts in, whatever the models before it answered or raised, and
\* the entry appended for a model is the dictionary its own test returned
\* or the error record of its own exception; the entries before it stay.
C22_ModelsIndependent ==
    /\ [](ModelNotStarted =>
            /\ pc = StartPc(script) /\ idx = 1
            /\ default_max = 0 /\ max_with_numctx = None /\ best_numctx = None
            /\ prev_tokens = 0 /\ native_limit = 0 /\ hardware_limit = 0
            /\ max_output = 0 /\ info = EmptyInfo
            /\ tests = <<>> /\ out_tests = <<>> /\ perf_tests = <<>>
            /\ results = NoResults)
    /\ [][all_results' # all_results =>
            /\ Len(all_results') = Len(all_results) + 1
            /\ \A i \in 1..Len(all_results) : all_results'[i] = all_results[i]
            /\ Last(all_results').model = mi
            /\ Last(all_results').kind =
                 IF pc = "return" THEN results.kind ELSE "error"
            /\ pc = "return" => results.model = mi /\ results.kind = "profile"]_vars

\* the second model's search is about to start after a first model that
\* raised in the middle of its search
C22_Witness ==
    /\ mi = 2
    /\ ModelNotStarted
    /\ all_results[1].kind = "error"
    /\ lastProbe.model = 1 /\ lastProbe.regime = "B" /\ lastProbe.ok

\* C23: the first probe of extended-window discovery has no probe of the
\* regime before it and so is never a plateau: when it succeeds (and, in
\* find_native_limit, is not truncated) the regime goes on to the next
\* window, whatever it observed and whatever default-limit discovery found.
C23_FirstProbeNeverPlateau ==
    [][/\ ProbeStepIn("B")
       /\ idx = 1
       /\ lastResult'.success
       /\ script = "smart" => ~lastResult'.truncated
       => pc' = "B"]_vars

\* C24: when extended-window discovery begins its best count is 0 and it
\* has no best window, whatever default-limit discovery found, and when
\* output-budget discovery begins its best output is 0.
C24_RegimeStateReset ==
    /\ pc = "B" /\ idx = 1 =>
         IF script = "context_length"
         THEN max_with_numctx = 0 /\ best_numctx = None
         ELSE prev_tokens = 0 /\ native_limit = 0 /\ hardware_limit = 0
    /\ pc = "C" /\ idx = 1 => max_output = 0 /\ out_tests = <<>>

\* the lookup of get_model_info failed for the model under test
LookupFailed == script = "smart" /\ lastProbe.model = mi /\ info = EmptyInfo

\* C25 as stated: a model whose metadata lookup failed gets an error entry
\* in the run report.
C25_LookupFailureIsErrorEntry ==
    [][LookupFailed /\ all_results' # all_results
       => Last(all_results').kind = "error"]_vars

\* C25, amended: when main() leaves a model whose test has not returned, an
\* exception having escaped it, it appends an error entry for that model
\* and goes on with the next model; a failed metadata lookup is no such
\* exception: the search goes on and the model gets the profile its test
\* returns.
C25_ExceptionIsErrorEntry ==
    /\ [][mi' # mi /\ pc # "return" =>
            /\ all_results' = Append(all_results, [model |-> mi, kind |-> "error",
                                                   error |-> <<"MemoryError">>])
            /\ mi' = mi + 1
            /\ pc' = IF mi < NumModels THEN StartPc(script) ELSE "done"
            /\ idx' = 1]_vars
    /\ [][LookupFailed /\ pc = "return" /\ all_results' # all_results =>
            /\ results.info = EmptyInfo
            /\ Last(all_results') = [model |-> mi, kind |-> "profile"]]_vars
    /\ [][NativePass /\ idx = 1 =>
            /\ mi' = mi /\ all_results' = all_results
            /\ lastProbe'.param = native_test_sizes[1]]_vars

\* the first model raised and has an error entry; the second model, whose
\* metadata lookup failed, was searched and its test returned a profile
C25_Witness ==
    /\ mi = 2
    /\ all_results[1] = [model |-> 1, kind |-> "error", error |-> <<"MemoryError">>]
    /\ LookupFailed
    /\ pc = "return"
    /\ results.kind = "profile"
    /\ results.native_context = 8180

\* the size, in tokens, asked of the prompt of the last probe of
\* extended-window discovery: target_tokens of test_single_context,
\* input_approx of test_context
RequestedSize ==
    IF script = "context_length"
    THEN lastResult.target_tokens
    ELSE lastResult.input_approx

\* C26: a probe of extended-window discovery for the window W has a prompt
\* sized to floor(0.9 * W) tokens.
C26_PromptIsNineTenths ==
    lastProbe.regime = "B" /\ lastResult.success =>
      LET W == lastProbe.num_ctx
      IN  RequestedSize * 10 <= W * 9 /\ W * 9 < (RequestedSize + 1) * 10

C28_NotReachedIffNoFailure ==
    [][NativePass /\ pc' # "B" =>
         /\ results'.hardware_limit = NotReached <=> lastProbe'.ok
         /\ ~lastProbe'.ok => results'.hardware_limit >= 0]_vars

\* the number of windows of context_sizes a model's test has probed with
\* success so far
BatchSucceeded ==
    IF tests # <<>> /\ ~tests[Len(tests)].success
    THEN Len(tests) - 1
    ELSE Len(tests)

C29_WitnessAll ==
    /\ script = "batch" /\ pc = "return"
    /\ Len(tests) = 9
    /\ results.max_num_ctx = 524288
    /\ results.recommended_ctx = 445644

\* the window of the last pass of phase 2 before this one, None if this is
\* the first
PreviousWindow == IF idx = 1 THEN None ELSE num_ctx_values[idx - 1]

\* C30: in find_max_context of context_length_test, whatever the probes
\* answer, optimal_num_ctx is null exactly when max_context_with_num_ctx
\* equals default_context; when it is not null, max_context_with_num_ctx is
\* greater than default_context and optimal_num_ctx is the largest window
\* whose probe observed more than the best count before it.  Phase 2 goes
\* on only after a probe that improved, so while it runs every window
\* probed so far improved and the largest is the previous one; the pass
\* that ends it adds its own window if it improved too.
C30_OptimalIsLargestImproving ==
    /\ [](script = "context_length" /\ pc = "B" =>
            /\ best_numctx = PreviousWindow
            /\ idx = 1 <=> max_with_numctx = default_max
            /\ idx > 1 => max_with_numctx > default_max)
    /\ [][NumCtxPass /\ pc' # "B" =>
            LET improved == lastResult'.success /\ Observed' > max_with_numctx
                largest == IF improved THEN num_ctx_values[idx] ELSE PreviousWindow
            IN  /\ results'.kind = "profile"
                /\ results'.default_context = default_max
                /\ results'.optimal_num_ctx = largest
                /\ largest = None <=>
                     results'.max_context_with_num_ctx = results'.default_context
                /\ largest # None =>
                     results'.max_context_with_num_ctx > results'.default_context]_vars

\* num_ctx 8192 observed 4093 and 16384 observed 9000, both more than the
\* best before them, and 32768 did not improve: the profile reports 16384
C30_Witness ==
    /\ script = "context_length"
    /\ results.kind = "profile"
    /\ results.default_context = 0
    /\ results.optimal_num_ctx = 16384
    /\ results.max_context_with_num_ctx = 9000
    /\ lastProbe.regime = "B" /\ lastProbe.param = 32768
====
